---------------------------- MODULE Spec2Model ----------------------------
(***************************************************************************)
(* A model of glumpy's Viewport tree (src/glumpy/app/viewport.py): the     *)
(* geometry solver _compute_viewport, the tree operations (constructor,    *)
(* add, the size and position setters) and the event handlers (on_resize,  *)
(* on_mouse_press, on_mouse_release, on_mouse_drag, on_mouse_scroll,       *)
(* on_mouse_motion).                                                       *)
(*                                                                         *)
(* Numbers.  The source is Python 2 and mixes ints and floats.  Every      *)
(* number of the model is an exact rational <<n, d>> (d > 0, lowest        *)
(* terms).  All inputs of the model are dyadic (k/2, k/4), which a float   *)
(* represents exactly, so the rational arithmetic is the float arithmetic. *)
(* The aspect is a float, as the constructor documents, so that every "/"  *)
(* of the source is a true division.                                       *)
(***************************************************************************)
EXTENDS Integers, Sequences, FiniteSets, TLC

VARIABLES vp, idcount, log, op, calls

vars == <<vp, idcount, log, op, calls>>

---------------------------------------------------------------------------
(* Exact rational arithmetic *)

Abs(n) == IF n < 0 THEN -n ELSE n

RECURSIVE Gcd(_, _)
Gcd(a, b) == IF b = 0 THEN a ELSE Gcd(b, a % b)

Norm(n, d) ==
    LET s == IF d < 0 THEN -1 ELSE 1
        g == Gcd(Abs(n), Abs(d))
    IN  <<(s * n) \div g, (s * d) \div g>>

I(n) == <<n, 1>>

F(n, d) == Norm(n, d)

Zero == I(0)

RAdd(a, b) ==
    IF a[2] = 1 /\ b[2] = 1 THEN <<a[1] + b[1], 1>>
    ELSE Norm(a[1] * b[2] + b[1] * a[2], a[2] * b[2])

RNeg(a) == <<-a[1], a[2]>>

RSub(a, b) == RAdd(a, RNeg(b))

RMul(a, b) ==
    IF a[2] = 1 /\ b[2] = 1 THEN <<a[1] * b[1], 1>>
    ELSE Norm(a[1] * b[1], a[2] * b[2])

RDiv(a, b) == Norm(a[1] * b[2], a[2] * b[1])

RLe(a, b) == a[1] * b[2] <= b[1] * a[2]

RLt(a, b) == a[1] * b[2] < b[1] * a[2]

RMax(a, b) == IF RLt(a, b) THEN b ELSE a

RMin(a, b) == IF RLt(b, a) THEN b ELSE a

\* int(round(x)) of Python 2: to the nearest integer, a tie away from zero.
IntRound(a) ==
    LET m == (2 * Abs(a[1]) + a[2]) \div (2 * a[2])
    IN  IF a[1] < 0 THEN <<-m, 1>> ELSE <<m, 1>>

---------------------------------------------------------------------------
(* Viewport fields *)

\* None, for _parent and _aspect.
None == <<>>

\* `if self._aspect:' is false for None and for 0.
Truthy(a) == a # None /\ a[1] # 0

\* Viewport.parent (the property), as a test.
HasParent(v, self) == v[self].parent # None

ParentOf(v, self) == v[self].parent[1]

---------------------------------------------------------------------------
(* _compute_viewport: the root case *)

\* A slip for RootRect: the rectangle is not centred.
RootRect_corner(s) ==
    LET W  == s.requested_size[1]
        H  == s.requested_size[2]
        h0 == IF Truthy(s.aspect) THEN RMul(W, s.aspect) ELSE H
        clamp == Truthy(s.aspect) /\ RLt(H, h0)
        h  == IF clamp THEN H ELSE h0
        w  == IF clamp THEN RDiv(h, s.aspect) ELSE W
    IN  <<Zero, Zero, w, h>>

\* Lines 232-245: the root's request is honoured, modulo the aspect.  The
\* result is <<x, y, w, h>>.
RootRect(s) ==
    LET W  == s.requested_size[1]
        H  == s.requested_size[2]
        h0 == IF Truthy(s.aspect) THEN RMul(W, s.aspect) ELSE H
        clamp == Truthy(s.aspect) /\ RLt(H, h0)
        h  == IF clamp THEN H ELSE h0
        w  == IF clamp THEN RDiv(h, s.aspect) ELSE W
        x  == RDiv(RSub(W, w), I(2))
        y  == RDiv(RSub(H, h), I(2))
    IN  <<x, y, w, h>>

\* A slip for RootGeometry: a recomputed root drops its captured viewports.
RootGeometry_release(s) ==
    LET r == RootRect(s)
    IN  [s EXCEPT !.viewport_position = <<r[1], r[2]>>,
                  !.viewport_size     = <<r[3], r[4]>>,
                  !.scissor_position  = <<r[1], r[2]>>,
                  !.scissor_size      = <<r[3], r[4]>>,
                  !.active_viewports  = <<>>]

RootGeometry(s) ==
    LET r == RootRect(s)
    IN  [s EXCEPT !.viewport_position = <<r[1], r[2]>>,
                  !.viewport_size     = <<r[3], r[4]>>,
                  !.scissor_position  = <<r[1], r[2]>>,
                  !.scissor_size      = <<r[3], r[4]>>]

---------------------------------------------------------------------------
(* _compute_viewport: the child case *)

\* A slip for Width: a request of exactly 1 taken as one pixel.
Width_below1(s, pvw) ==
    LET r == s.requested_size[1]
    IN  IntRound(IF RLe(r, I(-1)) THEN RMax(RAdd(pvw, r), Zero)
                 ELSE IF RLt(r, Zero) THEN RMax(RAdd(pvw, RMul(r, pvw)), Zero)
                 ELSE IF RLt(r, I(1)) THEN RMul(r, pvw)
                 ELSE r)

\* Lines 258-267: the relative or absolute width, rounded.
Width(s, pvw) ==
    LET r == s.requested_size[1]
    IN  IntRound(IF RLe(r, I(-1)) THEN RMax(RAdd(pvw, r), Zero)
                 ELSE IF RLt(r, Zero) THEN RMax(RAdd(pvw, RMul(r, pvw)), Zero)
                 ELSE IF RLe(r, I(1)) THEN RMul(r, pvw)
                 ELSE r)

\* Lines 281-289: the relative or absolute height, before rounding.
Height(s, pvh) ==
    LET r == s.requested_size[2]
    IN  IF RLe(r, I(-1)) THEN RMax(RAdd(pvh, r), Zero)
        ELSE IF RLt(r, Zero) THEN RMax(RAdd(pvh, RMul(r, pvh)), Zero)
        ELSE IF RLe(r, I(1)) THEN RMul(r, pvh)
        ELSE r

\* Lines 270-274: whether the aspect's height is clamped to the parent's.
AspectClamps(s, vw, pvh) ==
    /\ RLt(pvh, RMul(s.aspect, vw))
    /\ RLt(I(-1), s.requested_size[1])
    /\ RLe(s.requested_size[1], I(1))

\* Lines 256-290: <<vw, vh>>.  With an aspect the width that a clamp solves
\* back is not rounded again; the height always is.
Size(s, pvw, pvh) ==
    LET vw == Width(s, pvw)
    IN  IF Truthy(s.aspect)
        THEN IF AspectClamps(s, vw, pvh)
             THEN <<RDiv(pvh, s.aspect), IntRound(pvh)>>
             ELSE <<vw, IntRound(RMul(s.aspect, vw))>>
        ELSE <<vw, IntRound(Height(s, pvh))>>

\* Lines 294-302: the X anchor, an offset inside the viewport's own box.
AnchorX(s, vw) ==
    LET a == s.anchor[1]
    IN  IntRound(IF RLe(a, I(-1)) THEN RAdd(vw, a)
                 ELSE IF RLt(a, Zero) THEN RAdd(vw, RMul(a, vw))
                 ELSE IF RLt(a, I(1)) THEN RMul(a, vw)
                 ELSE a)

\* Lines 306-314: the X position, relative to the parent's origin.
PositionX(s, pvw, pvx, ax) ==
    LET r == s.requested_position[1]
        vx == IF RLe(r, I(-1)) THEN RAdd(pvw, r)
              ELSE IF RLt(I(-1), r) /\ RLt(r, Zero) THEN RAdd(pvw, RMul(r, pvw))
              ELSE IF RLe(Zero, r) /\ RLt(r, I(1)) THEN RMul(r, pvw)
              ELSE r
    IN  RSub(RAdd(IntRound(vx), pvx), ax)

\* Lines 318-326: the Y anchor.
AnchorY(s, vh) ==
    LET a == s.anchor[2]
    IN  IntRound(IF RLe(a, I(-1)) THEN RAdd(vh, a)
                 ELSE IF RLt(I(-1), a) /\ RLt(a, Zero) THEN RAdd(vh, RMul(a, vh))
                 ELSE IF RLe(Zero, a) /\ RLt(a, I(1)) THEN RMul(a, vh)
                 ELSE a)

\* A slip for PositionY: the branches of the height, where 1 is relative.
PositionY_as_height(s, pvh, pvy, ay) ==
    LET r == s.requested_position[2]
        vy == IF RLe(r, I(-1)) THEN RAdd(pvh, r)
              ELSE IF RLt(r, Zero) THEN RAdd(pvh, RMul(r, pvh))
              ELSE IF RLe(r, I(1)) THEN RMul(r, pvh)
              ELSE r
    IN  RSub(RAdd(IntRound(vy), pvy), ay)

\* Lines 330-339: the Y position.
PositionY(s, pvh, pvy, ay) ==
    LET r == s.requested_position[2]
        vy == IF RLe(r, I(-1)) THEN RAdd(pvh, r)
              ELSE IF RLt(I(-1), r) /\ RLt(r, Zero) THEN RAdd(pvh, RMul(r, pvh))
              ELSE IF RLe(Zero, r) /\ RLt(r, I(1)) THEN RMul(r, pvh)
              ELSE r
    IN  RSub(RAdd(IntRound(vy), pvy), ay)

\* A slip for Scissor: the size is not cut to the parent's.
Scissor_uncut(pv0, ps, v0, vs) ==
    <<RMax(pv0, v0), RMax(vs, Zero)>>

\* Lines 343 and 345: the scissor along one axis, <<position, size>>, from
\* the parent's viewport origin pv0, the parent's scissor size ps and the
\* viewport's own origin v0 and size vs.  The parent's scissor position
\* (psx, psy, read at line 253) is not used.
Scissor(pv0, ps, v0, vs) ==
    LET s0 == RMax(pv0, v0)
    IN  <<s0, RMax(RMin(RSub(RSub(ps, RSub(s0, pv0)), I(1)), vs), Zero)>>

\* Lines 250-352: the child's four rectangles fields from its parent p.
ChildGeometry(s, p) ==
    LET pvx == p.viewport_position[1]
        pvy == p.viewport_position[2]
        pvw == p.viewport_size[1]
        pvh == p.viewport_size[2]
        psw == p.scissor_size[1]
        psh == p.scissor_size[2]
        sz  == Size(s, pvw, pvh)
        vw  == sz[1]
        vh  == sz[2]
        ax  == AnchorX(s, vw)
        vx  == PositionX(s, pvw, pvx, ax)
        ay  == AnchorY(s, vh)
        vy  == PositionY(s, pvh, pvy, ay)
        cx  == Scissor(pvx, psw, vx, vw)
        cy  == Scissor(pvy, psh, vy, vh)
    IN  [s EXCEPT !.viewport_size     = <<vw, vh>>,
                  !.viewport_position = <<vx, vy>>,
                  !.scissor_size      = <<cx[2], cy[2]>>,
                  !.scissor_position  = <<cx[1], cy[1]>>]

\* Lines 226-356: compute self, then every child in order.  (A viewports
\* function that is used more than once is bound by a singleton set, so
\* that it is a value and not an expression to evaluate again.)
RECURSIVE compute_viewport(_, _)
RECURSIVE compute_children(_, _, _)
compute_children(v, cs, i) ==
    IF i > Len(cs) THEN v
    ELSE CHOOSE w \in { compute_children(v1, cs, i + 1) :
                        v1 \in { compute_viewport(v, cs[i]) } } : TRUE

compute_viewport(v, self) ==
    CHOOSE w \in { compute_children(v1, v1[self].children, 1) :
                   v1 \in { [v EXCEPT ![self] =
                               IF HasParent(v, self)
                               THEN ChildGeometry(v[self], v[ParentOf(v, self)])
                               ELSE RootGeometry(v[self])] } } : TRUE

---------------------------------------------------------------------------
(* Properties, hit test, the active setter *)

\* Lines 174-180, the `root' property: self without a parent, else the parent.
root(v, self) == IF ~HasParent(v, self) THEN self ELSE ParentOf(v, self)

\* Lines 188-194, the `viewport' property: <<x, y, w, h>>.
viewport(v, self) ==
    <<v[self].viewport_position[1], v[self].viewport_position[2],
      v[self].viewport_size[1], v[self].viewport_size[2]>>

\* The scissor rectangle <<x, y, w, h>> (lines 104-107, 351-352).
scissor(v, self) ==
    <<v[self].scissor_position[1], v[self].scissor_position[2],
      v[self].scissor_size[1], v[self].scissor_size[2]>>

\* Lines 359-365, __contains__: the pointer's y is flipped against
\* self.root.size[1], then tested against the viewport rectangle.
contains(v, self, x, y) ==
    LET yy == RSub(v[root(v, self)].viewport_size[2], I(y))
        xx == I(x)
        r  == viewport(v, self)
    IN  /\ RLe(r[1], xx)
        /\ RLt(xx, RAdd(r[1], r[3]))
        /\ RLe(r[2], yy)
        /\ RLt(yy, RAdd(r[2], r[4]))

\* Lines 165-171, the `active' setter: self, then every child, recursively.
RECURSIVE set_active(_, _, _)
RECURSIVE set_active_children(_, _, _, _)
set_active_children(v, cs, i, value) ==
    IF i > Len(cs) THEN v
    ELSE set_active_children(set_active(v, cs[i], value), cs, i + 1, value)

\* A slip for set_active: self and its children, no deeper.
set_active_flat(v, self, value) ==
    [m \in DOMAIN v |->
        IF m = self \/ (HasParent(v, m) /\ ParentOf(v, m) = self)
        THEN [v[m] EXCEPT !.active = value]
        ELSE v[m]]

set_active(v, self, value) ==
    set_active_children([v EXCEPT ![self].active = value],
                        v[self].children, 1, value)

---------------------------------------------------------------------------
(* Event handlers.  A handler works on st = [v |-> the viewports,          *)
(* l |-> the log of this dispatch] and returns the st it leaves.           *)

\* EventDispatcher.dispatch_event (glumpy/app/window/event.py) delivers the
\* event to the viewport, whose handler of that name then runs: the callers
\* below apply the handler.  The delivery is logged with the rectangle the
\* viewport has when the event reaches it.
dispatch_event(st, node, ev) ==
    [st EXCEPT !.l = Append(@, <<ev, node, viewport(st.v, node)>>)]

\* Lines 381-395.  Lines 387-392 read self.viewport for the uniforms: the
\* log keeps what they read.
RECURSIVE on_resize(_, _, _, _)
RECURSIVE on_resize_children(_, _, _, _, _)
on_resize_children(st, cs, i, width, height) ==
    IF i > Len(cs) THEN st
    ELSE on_resize_children(
             on_resize(dispatch_event(st, cs[i], "on_resize"), cs[i], width, height),
             cs, i + 1, width, height)

\* A slip for on_resize: the children are notified before the recompute.
on_resize_late(st, self, width, height) ==
    LET v0 == IF ~HasParent(st.v, self)
              THEN [st.v EXCEPT ![self].requested_size = <<I(width), I(height)>>]
              ELSE st.v
        s1 == on_resize_children([st EXCEPT !.v = v0], v0[self].children, 1,
                                 width, height)
        v1 == compute_viewport(s1.v, self)
    IN  [v |-> v1, l |-> Append(s1.l, <<"viewport", self, viewport(v1, self)>>)]

on_resize(st, self, width, height) ==
    LET v0 == IF ~HasParent(st.v, self)
              THEN [st.v EXCEPT ![self].requested_size = <<I(width), I(height)>>]
              ELSE st.v
        v1 == compute_viewport(v0, self)
        s1 == [v |-> v1, l |-> Append(st.l, <<"viewport", self, viewport(v1, self)>>)]
    IN  on_resize_children(s1, v1[self].children, 1, width, height)

\* Lines 406-412.
RECURSIVE on_mouse_press(_, _, _, _)
RECURSIVE on_mouse_press_children(_, _, _, _, _, _)
\* A slip for on_mouse_press_children: the capture list keeps only the
\* child pressed last.
on_mouse_press_children_one(st, self, cs, i, x, y) ==
    IF i > Len(cs) THEN st
    ELSE IF contains(st.v, cs[i], x, y)
         THEN on_mouse_press_children(
                  on_mouse_press(
                      dispatch_event(
                          [st EXCEPT !.v[root(st.v, self)].active_viewports = <<cs[i]>>],
                          cs[i], "on_mouse_press"),
                      cs[i], x, y),
                  self, cs, i + 1, x, y)
         ELSE on_mouse_press_children(st, self, cs, i + 1, x, y)

\* A slip for on_mouse_press: the root's capture list is not emptied.
on_mouse_press_keep(st, self, x, y) ==
    on_mouse_press_children(st, self, st.v[self].children, 1, x, y)

on_mouse_press_children(st, self, cs, i, x, y) ==
    IF i > Len(cs) THEN st
    ELSE LET child == cs[i]
         IN  IF contains(st.v, child, x, y)
             THEN LET r  == root(st.v, self)
                      s1 == [st EXCEPT !.v[r].active_viewports = Append(@, child)]
                  IN  on_mouse_press_children(
                          on_mouse_press(dispatch_event(s1, child, "on_mouse_press"),
                                         child, x, y),
                          self, cs, i + 1, x, y)
             ELSE on_mouse_press_children(st, self, cs, i + 1, x, y)

on_mouse_press(st, self, x, y) ==
    LET s0 == IF ~HasParent(st.v, self)
              THEN [st EXCEPT !.v[self].active_viewports = <<>>]
              ELSE st
    IN  on_mouse_press_children(s0, self, s0.v[self].children, 1, x, y)

\* Lines 415-418.  A captured viewport's own handler runs on the delivery;
\* it has a parent (it is a child of the viewport that captured it), so it
\* does nothing.
RECURSIVE on_mouse_release_each(_, _, _)
on_mouse_release_each(st, cs, i) ==
    IF i > Len(cs) THEN st
    ELSE on_mouse_release_each(dispatch_event(st, cs[i], "on_mouse_release"),
                               cs, i + 1)

\* A slip for on_mouse_release: the release is hit-tested like the press.
on_mouse_release_hit(st, self, x, y) ==
    IF ~HasParent(st.v, self)
    THEN on_mouse_release_each(
             st, SelectSeq(st.v[self].active_viewports,
                           LAMBDA c : contains(st.v, c, x, y)), 1)
    ELSE st

on_mouse_release(st, self, x, y) ==
    IF ~HasParent(st.v, self)
    THEN on_mouse_release_each(st, st.v[self].active_viewports, 1)
    ELSE st

\* Lines 421-425 (ev = "on_mouse_drag") and 428-432 (ev = "on_mouse_scroll"):
\* the two handlers are the same code.  The target has a parent, so its own
\* handler does nothing.
\* A slip for on_mouse_last: the first captured viewport is the target.
on_mouse_last_first(st, self, ev) ==
    LET av == st.v[root(st.v, self)].active_viewports
    IN  IF ~HasParent(st.v, self) /\ av # <<>>
        THEN dispatch_event(st, av[1], ev)
        ELSE st

on_mouse_last(st, self, ev) ==
    LET av == st.v[root(st.v, self)].active_viewports
    IN  IF ~HasParent(st.v, self) /\ av # <<>>
        THEN dispatch_event(st, av[Len(av)], ev)
        ELSE st

\* Lines 435-448.
RECURSIVE on_mouse_motion(_, _, _, _)
RECURSIVE on_mouse_motion_children(_, _, _, _, _, _)
on_mouse_motion_children(st, self, cs, i, x, y) ==
    IF i > Len(cs) THEN st
    ELSE LET child == cs[i]
         IN  IF contains(st.v, child, x, y)
             THEN LET s1 == IF ~st.v[child].active
                            THEN dispatch_event(st, child, "on_enter")
                            ELSE st
                      v2 == [set_active(s1.v, self, FALSE) EXCEPT ![child].active = TRUE]
                      s3 == dispatch_event([s1 EXCEPT !.v = v2], child, "on_mouse_motion")
                  IN  on_mouse_motion_children(on_mouse_motion(s3, child, x, y),
                                               self, cs, i + 1, x, y)
             ELSE LET s1 == IF st.v[child].active
                            THEN dispatch_event(st, child, "on_leave")
                            ELSE st
                      v2 == set_active(s1.v, child, FALSE)
                      v3 == IF contains(v2, self, x, y)
                            THEN [v2 EXCEPT ![self].active = TRUE]
                            ELSE v2
                  IN  on_mouse_motion_children([s1 EXCEPT !.v = v3],
                                               self, cs, i + 1, x, y)

on_mouse_motion(st, self, x, y) ==
    on_mouse_motion_children(st, self, st.v[self].children, 1, x, y)

---------------------------------------------------------------------------
(* Tree operations *)

\* A slip for Viewport: the counter is not read, every id is 0.
Viewport_id0(size, position, anchor, aspect, id) ==
    [parent             |-> None,
     children           |-> <<>>,
     active_viewports   |-> <<>>,
     aspect             |-> aspect,
     anchor             |-> anchor,
     requested_size     |-> size,
     requested_position |-> position,
     scissor_size       |-> size,
     scissor_position   |-> position,
     viewport_size      |-> size,
     viewport_position  |-> position,
     active             |-> FALSE,
     id                 |-> 0]

\* Lines 62-119, __init__: the rectangles start as the request itself.
Viewport(size, position, anchor, aspect, id) ==
    [parent             |-> None,
     children           |-> <<>>,
     active_viewports   |-> <<>>,
     aspect             |-> aspect,
     anchor             |-> anchor,
     requested_size     |-> size,
     requested_position |-> position,
     scissor_size       |-> size,
     scissor_position   |-> position,
     viewport_size      |-> size,
     viewport_position  |-> position,
     active             |-> FALSE,
     id                 |-> id]

\* Lines 125-129, add: no test of the child's present parent.
add(v, self, child) ==
    [v EXCEPT ![child].parent = <<self>>,
              ![self].children = Append(@, child)]

\* Lines 203-208, the `size' setter.
set_size(v, self, size) ==
    LET v1 == [v EXCEPT ![self].requested_size = size]
    IN  compute_viewport(v1, root(v1, self))

\* Lines 218-223, the `position' setter.
set_position(v, self, position) ==
    LET v1 == [v EXCEPT ![self].requested_position = position]
    IN  compute_viewport(v1, root(v1, self))

---------------------------------------------------------------------------
(* State *)

Nodes == 0 .. (idcount - 1)

Roots == {n \in Nodes : ~HasParent(vp, n)}

\* Whether b is a or below a, along the child lists.
RECURSIVE InSubtree(_, _, _)
InSubtree(v, a, b) ==
    \/ a = b
    \/ \E i \in 1 .. Len(v[a].children) : InSubtree(v, v[a].children[i], b)

NoLog == <<>>

St0 == [v |-> vp, l |-> NoLog]

\* Line 59: _idcount = 0; no viewport exists yet.
Init ==
    /\ vp = <<>>
    /\ idcount = 0
    /\ log = NoLog
    /\ op = <<"init", 0, <<>>>>
    /\ calls = 0

---------------------------------------------------------------------------
(* Actions: one per operation of the interface.  op names the operation    *)
(* that led to the state, log holds what it delivered.                     *)

Create(t) ==
    /\ vp' = [n \in 0 .. idcount |->
                 IF n = idcount
                 THEN Viewport(t.size, t.position, t.anchor, t.aspect, idcount)
                 ELSE vp[n]]
    /\ idcount' = idcount + 1
    /\ log' = NoLog
    /\ op' = <<"create", idcount, <<>>>>

Add(p, c) ==
    /\ vp' = add(vp, p, c)
    /\ log' = NoLog
    /\ op' = <<"add", p, <<c>>>>
    /\ UNCHANGED idcount

SetSize(n, size) ==
    /\ vp' = set_size(vp, n, size)
    /\ log' = NoLog
    /\ op' = <<"set_size", n, <<>>>>
    /\ UNCHANGED idcount

SetPosition(n, position) ==
    /\ vp' = set_position(vp, n, position)
    /\ log' = NoLog
    /\ op' = <<"set_position", n, <<>>>>
    /\ UNCHANGED idcount

\* viewport.active = value (lines 165-171).
SetActive(n, value) ==
    /\ vp' = set_active(vp, n, value)
    /\ log' = NoLog
    /\ op' = <<"set_active", n, <<value>>>>
    /\ UNCHANGED idcount

Dispatched(st, name, n, args) ==
    /\ vp' = st.v
    /\ log' = st.l
    /\ op' = <<name, n, args>>
    /\ UNCHANGED idcount

Resize(n, width, height) ==
    Dispatched(on_resize(dispatch_event(St0, n, "on_resize"), n, width, height),
               "on_resize", n, <<width, height>>)

Press(n, x, y) ==
    Dispatched(on_mouse_press(dispatch_event(St0, n, "on_mouse_press"), n, x, y),
               "on_mouse_press", n, <<x, y>>)

Release(n, x, y) ==
    Dispatched(on_mouse_release(dispatch_event(St0, n, "on_mouse_release"), n, x, y),
               "on_mouse_release", n, <<x, y>>)

Drag(n, x, y) ==
    Dispatched(on_mouse_last(dispatch_event(St0, n, "on_mouse_drag"), n, "on_mouse_drag"),
               "on_mouse_drag", n, <<x, y>>)

Scroll(n, x, y) ==
    Dispatched(on_mouse_last(dispatch_event(St0, n, "on_mouse_scroll"), n, "on_mouse_scroll"),
               "on_mouse_scroll", n, <<x, y>>)

Motion(n, x, y) ==
    Dispatched(on_mouse_motion(dispatch_event(St0, n, "on_mouse_motion"), n, x, y),
               "on_mouse_motion", n, <<x, y>>)

---------------------------------------------------------------------------
(* The inputs *)

MaxNodes == 3

MaxRoots == 2

MaxCalls == 2

Arg(size, position, anchor, aspect) ==
    [size |-> size, position |-> position, anchor |-> anchor, aspect |-> aspect]

P(a, b) == <<a, b>>

LayoutArgs ==
    { Arg(P(I(8), I(8)), P(Zero, Zero), P(Zero, Zero), None),
      Arg(P(I(400), I(400)), P(Zero, Zero), P(Zero, Zero), F(1, 2)),
      Arg(P(I(1), I(1)), P(I(-10), I(1)), P(Zero, Zero), I(2)),
      Arg(P(F(1, 2), F(-1, 2)), P(F(1, 4), F(-1, 4)), P(F(1, 2), F(1, 2)), None) }

\* Every branch of the size rule and every boundary between two branches,
\* for the width and for the height.
Sizes ==
    { P(F(-5, 4), I(-10)), P(I(-1), I(1)), P(I(1), I(-1)),
      P(Zero, F(1, 4)), P(F(-1, 4), Zero), P(F(1, 4), I(6)) }

Positions == { P(F(-1, 4), I(1)), P(I(-1), I(3)) }

WindowSizes == { P(6, 2) }

\* The callers keep add's precondition: the child has no parent yet, and
\* the parent is not below the child (a cycle would make _compute_viewport
\* recurse for ever).
MayAdd(p, c) == ~HasParent(vp, c) /\ ~InSubtree(vp, c, p)

MayCreate(max) == idcount < max /\ Cardinality(Roots) < MaxRoots

\* A root's request is a window's size: absolute pixels.  A viewport made
\* with a relative request is meant to be added to a parent, and nothing is
\* computed on its tree before that.
RootLike(n) ==
    LET s == vp[n].requested_size
    IN  s[1][2] = 1 /\ s[2][2] = 1 /\ s[1][1] > 1 /\ s[2][1] > 1

RECURSIVE Top(_, _)
Top(v, n) == IF HasParent(v, n) THEN Top(v, ParentOf(v, n)) ELSE n

Sane(n) == RootLike(Top(vp, n))

\* calls counts the setter calls and the dispatches, up to max.
Call(max) == calls < max /\ calls' = calls + 1

Build(max, args) ==
    \/ \E t \in args : MayCreate(max) /\ Create(t) /\ UNCHANGED calls
    \/ \E p, c \in Nodes : MayAdd(p, c) /\ Add(p, c) /\ UNCHANGED calls

Next ==
    \/ Build(MaxNodes, LayoutArgs)
    \/ \E n \in Nodes \ Roots, s \in Sizes :
           Sane(n) /\ Call(MaxCalls) /\ SetSize(n, s)
    \/ \E n \in Roots, s \in WindowSizes :
           Sane(n) /\ Call(MaxCalls) /\ SetSize(n, P(I(s[1]), I(s[2])))
    \/ \E n \in Nodes, s \in Positions :
           Sane(n) /\ Call(MaxCalls) /\ SetPosition(n, s)
    \/ \E n \in Nodes, s \in WindowSizes :
           Sane(n) /\ Call(MaxCalls) /\ Resize(n, s[1], s[2])

Spec == Init /\ [][Next]_vars

---------------------------------------------------------------------------
(* The layout of a deep tree: a chain, each viewport the parent of the     *)
(* next one made.                                                          *)

MaxDeepNodes == 4

MaxDeepCalls == 2

BuildChain ==
    \/ \E t \in LayoutArgs :
           /\ idcount < MaxDeepNodes
           /\ Cardinality(Roots) <= 1
           /\ Create(t)
           /\ UNCHANGED calls
    \/ /\ Cardinality(Roots) = 2
       /\ Add(idcount - 2, idcount - 1)
       /\ UNCHANGED calls

NextDeep ==
    \/ BuildChain
    \/ \E n \in Nodes \ Roots, s \in Sizes : Sane(n) /\ Call(MaxDeepCalls) /\ SetSize(n, s)
    \/ \E n \in Nodes, s \in Positions : Sane(n) /\ Call(MaxDeepCalls) /\ SetPosition(n, s)
    \/ \E n \in Roots, s \in WindowSizes : Sane(n) /\ Call(MaxDeepCalls) /\ Resize(n, s[1], s[2])

SpecDeep == Init /\ [][NextDeep]_vars

-------------------------------------------------------------------------------------------------
(* The event router.  The application builds its tree of up to             *)
(* MaxEventNodes viewports, then the window dispatches to the root: the    *)
(* resize, and pointer events at the points of Points.  Drag and scroll    *)
(* are also dispatched at the other viewports.  Drag and scroll read no    *)
(* coordinates, so one point stands for all.                               *)

MaxEventNodes == 4

\* A press that reaches depth 3 appends to a list that nothing empties
\* (see root): the lists below the root are kept under this length.
MaxCaptured == 2

EventArgs ==
    { Arg(P(I(1), I(1)), P(Zero, Zero), P(Zero, Zero), None),
      Arg(P(F(1, 2), F(1, 2)), P(Zero, Zero), P(Zero, Zero), None) }

EventWindow == P(8, 8)

Points == { P(1, 5), P(5, 1) }

Point0 == P(1, 5)

Building == op[1] \in {"init", "create", "add"}

\* The window sends its size (on_resize) before any pointer event.
Shown == ~Building

MayPress == \A m \in Nodes \ Roots : Len(vp[m].active_viewports) < MaxCaptured

NextEvents ==
    \/ Building /\ Build(MaxEventNodes, EventArgs)
    \/ \E n \in Roots : Resize(n, EventWindow[1], EventWindow[2]) /\ UNCHANGED calls
    \/ \E n \in Roots, q \in Points : Shown /\ MayPress /\ Press(n, q[1], q[2]) /\ UNCHANGED calls
    \/ \E n \in Roots, q \in Points : Shown /\ Release(n, q[1], q[2]) /\ UNCHANGED calls
    \/ \E n \in Nodes : Shown /\ Drag(n, Point0[1], Point0[2]) /\ UNCHANGED calls
    \/ \E n \in Nodes : Shown /\ Scroll(n, Point0[1], Point0[2]) /\ UNCHANGED calls
    \/ \E n \in Roots, q \in Points : Shown /\ Motion(n, q[1], q[2]) /\ UNCHANGED calls

SpecEvents == Init /\ [][NextEvents]_vars

---------------------------------------------------------------------------
(* Vocabulary of the properties *)

\* The root of n's tree: the ancestor-or-self without a parent.
TreeRoot(v, n) == Top(v, n)

RECURSIVE Depth(_, _)
Depth(v, n) == IF HasParent(v, n) THEN 1 + Depth(v, ParentOf(v, n)) ELSE 0

\* The viewports of the tree whose root is r.
Tree(r) == {m \in Nodes : TreeRoot(vp, m) = r}

\* The viewport at which the last operation started _compute_viewport, as
\* a set: on_resize recomputes at its target, the setters at self.root.
ComputeStart ==
    IF op[1] = "on_resize" THEN {op[2]}
    ELSE IF op[1] \in {"set_size", "set_position"} THEN {root(vp, op[2])}
    ELSE {}

\* The viewports the last operation recomputed.
Recomputed == {m \in Nodes : \E s \in ComputeStart : InSubtree(vp, s, m)}

\* The pointer (x, y), whose y grows downwards from the top of the window,
\* is inside m's viewport rectangle: the y is flipped against the height
\* of the root of m's tree.
Inside(v, m, x, y) ==
    LET r  == viewport(v, m)
        yy == RSub(v[TreeRoot(v, m)].viewport_size[2], I(y))
    IN  /\ RLe(r[1], I(x)) /\ RLt(I(x), RAdd(r[1], r[3]))
        /\ RLe(r[2], yy) /\ RLt(yy, RAdd(r[2], r[4]))

IsInt(a) == a[2] = 1

\* n is an integer nearest to x.
Nearest(n, x) == IsInt(n) /\ RLe(RSub(x, F(1, 2)), n) /\ RLe(n, RAdd(x, F(1, 2)))

\* The four-branch rule of the specification for a requested scalar r
\* against the parent dimension p.
FourBranch(r, p) ==
    CASE RLe(r, I(-1))                 -> RMax(RAdd(p, r), Zero)
      [] RLt(I(-1), r) /\ RLt(r, Zero) -> RMax(RAdd(p, RMul(r, p)), Zero)
      [] RLe(Zero, r) /\ RLe(r, I(1))  -> RMul(r, p)
      [] RLt(I(1), r)                  -> r

\* m's rectangles are what the solver gives for m's request and its
\* parent's present rectangles.
Solved(m) ==
    vp[m] = IF HasParent(vp, m)
            THEN ChildGeometry(vp[m], vp[ParentOf(vp, m)])
            ELSE RootGeometry(vp[m])

---------------------------------------------------------------------------
(* C1 *)

\* m's clip rectangle lies inside its parent's clip rectangle.  A clip
\* rectangle clamped to nothing (a width or a height of 0: no overlap) is
\* inside wherever it is put: the claim is read in the code's favour.
ClipInside(m) ==
    LET c == scissor(vp, m)
        q == scissor(vp, ParentOf(vp, m))
    IN  /\ RLe(Zero, c[3])
        /\ RLe(Zero, c[4])
        /\ \/ c[3] = Zero
           \/ c[4] = Zero
           \/ /\ RLe(q[1], c[1])
              /\ RLe(q[2], c[2])
              /\ RLe(RAdd(c[1], c[3]), RAdd(q[1], q[3]))
              /\ RLe(RAdd(c[2], c[4]), RAdd(q[2], q[4]))

\* C1: after a recompute of the root, the clip rectangle of every viewport
\* of the tree but the root is inside its parent's clip rectangle, with a
\* width and a height of at least 0, at every depth.
C1_ClipInsideParent ==
    \A s \in ComputeStart :
        s \in Roots => \A m \in Tree(s) \ {s} : ClipInside(m)

---------------------------------------------------------------------------
(* C5 *)

\* C5: for every viewport, at any depth, the `root' property is the root of
\* its tree, the ancestor-or-self that has no parent.
C5_RootIsTreeRoot == \A n \in Nodes : root(vp, n) = TreeRoot(vp, n)

---------------------------------------------------------------------------
(* C6 *)

\* C6: after set_size or set_position on a viewport at any depth, every
\* viewport of its tree, the root included, has the rectangles the solver
\* gives for its present request and its parent's present rectangles.
C6_SetterRecomputesTree ==
    op[1] \in {"set_size", "set_position"} =>
        \A m \in Tree(TreeRoot(vp, op[2])) : Solved(m)

---------------------------------------------------------------------------
(* C7 *)

\* C7: after on_resize(w, h) dispatched at a root, the root's request is
\* (w, h), every viewport of the tree was notified, every rectangle of the
\* tree is the solver's for the new size, and every rectangle a descendant
\* had when it was notified, or read in its handler, was that rectangle
\* already.  (log[1] is the delivery at the root itself.)
C7_ResizeBeforeNotify ==
    (op[1] = "on_resize" /\ op[2] \in Roots) =>
        /\ vp[op[2]].requested_size = <<I(op[3][1]), I(op[3][2])>>
        /\ \A m \in Tree(op[2]) : Solved(m)
        /\ \A m \in Tree(op[2]) :
               \E i \in 1 .. Len(log) : log[i][1] = "on_resize" /\ log[i][2] = m
        /\ \A i \in 2 .. Len(log) : log[i][3] = viewport(vp, log[i][2])

\* A resize that changes the root's rectangle, on a tree of three levels.
C7_Witness ==
    /\ op[1] = "on_resize" /\ op[2] \in Roots
    /\ log[1][3] # viewport(vp, op[2])
    /\ \E m \in Tree(op[2]) : Depth(vp, m) = 2
    /\ Len(log) = 6

---------------------------------------------------------------------------
(* C8 *)

\* C8: a recomputed child without aspect has a width that is an integer
\* nearest to the four-branch rule of its requested width against the
\* parent's viewport width, a height that is the same of its requested
\* height against the parent's viewport height, and neither is negative.
C8_ChildSizeRule ==
    \A m \in Recomputed \ Roots :
        ~Truthy(vp[m].aspect) =>
            LET q == vp[ParentOf(vp, m)].viewport_size
                w == vp[m].viewport_size[1]
                h == vp[m].viewport_size[2]
            IN  /\ Nearest(w, FourBranch(vp[m].requested_size[1], q[1]))
                /\ Nearest(h, FourBranch(vp[m].requested_size[2], q[2]))
                /\ RLe(Zero, w)
                /\ RLe(Zero, h)

---------------------------------------------------------------------------
(* C9 *)

\* C9, as claimed: every recomputed child whose requested width r is in
\* [0, 1] has the width round(r * parent.width), whatever its aspect.
C9_FractionWidth ==
    \A m \in Recomputed \ Roots :
        LET r == vp[m].requested_size[1]
            q == vp[ParentOf(vp, m)].viewport_size
        IN  (RLe(Zero, r) /\ RLe(r, I(1))) =>
                Nearest(vp[m].viewport_size[1], RMul(r, q[1]))

\* The aspect does not clamp: there is none, or the height it gives to the
\* rounded width is not above the parent's height.
C9_NotClamped(m) ==
    LET r == vp[m].requested_size[1]
        q == vp[ParentOf(vp, m)].viewport_size
    IN  \/ ~Truthy(vp[m].aspect)
        \/ RLe(RMul(vp[m].aspect, IntRound(RMul(r, q[1]))), q[2])

\* C9, amended: every recomputed child whose requested width r is in
\* [0, 1] and whose aspect does not clamp has the width
\* round(r * parent.width).
C9_FractionWidthNotClamped ==
    \A m \in Recomputed \ Roots :
        LET r == vp[m].requested_size[1]
            q == vp[ParentOf(vp, m)].viewport_size
        IN  (RLe(Zero, r) /\ RLe(r, I(1)) /\ C9_NotClamped(m)) =>
                Nearest(vp[m].viewport_size[1], RMul(r, q[1]))

\* A recomputed child with an aspect that does not clamp, r in [0, 1], and
\* a parent of positive width.
C9_Witness ==
    \E m \in Recomputed \ Roots :
        LET r == vp[m].requested_size[1]
            q == vp[ParentOf(vp, m)].viewport_size
        IN  /\ RLt(Zero, r) /\ RLe(r, I(1))
            /\ Truthy(vp[m].aspect)
            /\ C9_NotClamped(m)
            /\ RLt(Zero, q[1])
            /\ vp[m].viewport_size[1] = IntRound(RMul(r, q[1]))

---------------------------------------------------------------------------
(* C10 *)

---------------------------------------------------------------------------
(* C2, C3 *)

\* The nodes other than r of the deliveries of ev in the log l, in order.
RECURSIVE Delivered(_, _, _, _)
Delivered(l, ev, r, i) ==
    IF i > Len(l) THEN <<>>
    ELSE (IF l[i][1] = ev /\ l[i][2] # r THEN <<l[i][2]>> ELSE <<>>)
         \o Delivered(l, ev, r, i + 1)

\* The nodes below self that contain (x, y) with every ancestor below the
\* root of the traversal containing it, in pre-order.
RECURSIVE Hit(_, _, _, _, _)
Hit(v, cs, i, x, y) ==
    IF i > Len(cs) THEN <<>>
    ELSE (IF contains(v, cs[i], x, y)
          THEN <<cs[i]>> \o Hit(v, v[cs[i]].children, 1, x, y)
          ELSE <<>>)
         \o Hit(v, cs, i + 1, x, y)

NoDuplicate(s) == \A i, j \in 1 .. Len(s) : s[i] = s[j] => i = j

Members(s) == { s[i] : i \in 1 .. Len(s) }

\* C2: after a press dispatched at a root, the root's capture list is the
\* sequence of the non-root nodes that received the press, which is the
\* pre-order sequence of the nodes that contain the point with all their
\* ancestors below the root, each once; and no node that received the
\* press is in the capture list of any other node.
C2_PressCapturesAtRoot ==
    (op[1] = "on_mouse_press" /\ op[2] \in Roots) =>
        LET r   == op[2]
            got == Delivered(log, "on_mouse_press", r, 1)
        IN  /\ got = Hit(vp, vp[r].children, 1, op[3][1], op[3][2])
            /\ NoDuplicate(got)
            /\ vp[r].active_viewports = got
            /\ \A m \in Nodes \ {r} :
                   Members(vp[m].active_viewports) \cap Members(got) = {}

\* C3: a release dispatched at a root is delivered, below the root, to the
\* nodes of the root's capture list as it was before the release, each
\* once and in that order, and to no other node; and between the press and
\* the release, no move, drag or scroll changes a root's capture list.
C3_ReleaseReachesCaptured ==
    [][ /\ (op'[1] = "on_mouse_release" /\ op'[2] \in Roots) =>
            /\ Delivered(log', "on_mouse_release", op'[2], 1) =
                   vp[op'[2]].active_viewports
            /\ Len(log') = 1 + Len(vp[op'[2]].active_viewports)
        /\ op'[1] \in {"on_mouse_motion", "on_mouse_drag", "on_mouse_scroll"} =>
            \A r \in Roots : vp'[r].active_viewports = vp[r].active_viewports
      ]_vars

\* A release at a root that holds two captured nodes, at a point that one
\* of them does not contain, delivered to both.
C3_Witness ==
    /\ op[1] = "on_mouse_release" /\ op[2] \in Roots
    /\ Len(vp[op[2]].active_viewports) = 2
    /\ \E m \in Members(vp[op[2]].active_viewports) :
           ~contains(vp, m, op[3][1], op[3][2])
    /\ Delivered(log, "on_mouse_release", op[2], 1) = vp[op[2]].active_viewports

---------------------------------------------------------------------------
(* C4 *)

MaxReparentNodes == 3

MaxChildren == 2

\* add as the code allows it: the child may have a parent already.  The
\* trees stay trees (no viewport is added under itself).
NextReparent ==
    \/ \E t \in EventArgs : idcount < MaxReparentNodes /\ Create(t) /\ UNCHANGED calls
    \/ \E p, c \in Nodes :
           /\ ~InSubtree(vp, c, p)
           /\ Len(vp[p].children) < MaxChildren
           /\ Add(p, c)
           /\ UNCHANGED calls
    \/ \E n \in Roots : Resize(n, EventWindow[1], EventWindow[2]) /\ UNCHANGED calls

SpecReparent == Init /\ [][NextReparent]_vars

\* C4: add(parent, child) of a child that has a parent already changes
\* nothing: not the child's parent, nor any child list.
C4_AddRejectsParented ==
    [][ (op'[1] = "add" /\ HasParent(vp, op'[3][1])) => vp' = vp ]_vars

---------------------------------------------------------------------------
(* C11 *)

\* C11: after a recompute of the root, the clip rectangle of every
\* viewport of the tree but the root has a width and a height that are at
\* most the width and the height of its parent's clip rectangle, and at
\* least 0.
C11_ClipSizeWithinParent ==
    \A s \in ComputeStart \cap Roots :
        \A m \in Tree(s) \ {s} :
            LET c == scissor(vp, m)
                q == scissor(vp, ParentOf(vp, m))
            IN  /\ RLe(Zero, c[3]) /\ RLe(c[3], q[3])
                /\ RLe(Zero, c[4]) /\ RLe(c[4], q[4])

\* A root recompute of a tree of three levels in which a viewport wider
\* than its parent's clip rectangle is cut, and a grandchild is cut too.
C11_Witness ==
    \E s \in ComputeStart \cap Roots :
        /\ \E m \in Tree(s) :
               /\ Depth(vp, m) = 1
               /\ RLt(scissor(vp, s)[3], viewport(vp, m)[3])
               /\ RLt(Zero, scissor(vp, m)[3])
        /\ \E m \in Tree(s) :
               /\ Depth(vp, m) = 2
               /\ RLt(scissor(vp, m)[4], viewport(vp, m)[4])

---------------------------------------------------------------------------
(* C12 *)

\* C12: after a press dispatched at a root, any two children of the root
\* whose rectangles both contain the point have both received the press
\* and are both in the root's capture list, the one added first to the
\* root before the other.
C12_OverlappingSiblingsPressed ==
    (op[1] = "on_mouse_press" /\ op[2] \in Roots) =>
        LET r   == op[2]
            cs  == vp[r].children
            cap == vp[r].active_viewports
            got == Members(Delivered(log, "on_mouse_press", r, 1))
        IN  \A i, j \in 1 .. Len(cs) :
                (/\ i < j
                 /\ Inside(vp, cs[i], op[3][1], op[3][2])
                 /\ Inside(vp, cs[j], op[3][1], op[3][2])) =>
                    /\ cs[i] \in got /\ cs[j] \in got
                    /\ \E a, b \in 1 .. Len(cap) :
                           a < b /\ cap[a] = cs[i] /\ cap[b] = cs[j]

\* A press at a point inside two children of the root, the first of which
\* has a child of its own that is pressed too.
C12_Witness ==
    /\ op[1] = "on_mouse_press" /\ op[2] \in Roots
    /\ LET cs == vp[op[2]].children
       IN  /\ Len(cs) = 2
           /\ Inside(vp, cs[1], op[3][1], op[3][2])
           /\ Inside(vp, cs[2], op[3][1], op[3][2])
           /\ vp[cs[1]].children # <<>>
           /\ Len(vp[op[2]].active_viewports) = 3

---------------------------------------------------------------------------
(* C13 *)

\* C13: a drag or a scroll dispatched at a root is delivered below it to
\* one viewport, the last of the root's capture list, and to none when the
\* list is empty; dispatched at a viewport that has a parent it is
\* delivered to no other viewport.  (log[1] is the dispatch itself.)
C13_DragScrollToLastCaptured ==
    (op[1] \in {"on_mouse_drag", "on_mouse_scroll"}) =>
        LET cap == vp[op[2]].active_viewports
        IN  IF op[2] \in Roots /\ cap # <<>>
            THEN /\ Len(log) = 2
                 /\ log[2][1] = op[1]
                 /\ log[2][2] = cap[Len(cap)]
            ELSE Len(log) = 1

\* A scroll at a root that holds two captured viewports: the second gets it.
C13_Witness ==
    /\ op[1] = "on_mouse_scroll" /\ op[2] \in Roots
    /\ Len(vp[op[2]].active_viewports) = 2
    /\ Len(log) = 2
    /\ log[2][2] = vp[op[2]].active_viewports[2]
    /\ log[2][2] # vp[op[2]].active_viewports[1]

---------------------------------------------------------------------------
(* C14 *)

\* C14: of two moves dispatched one after the other at a root, the second
\* delivers 'enter' only to viewports that contain its point and did not
\* contain the point of the first, and 'leave' only to viewports that
\* contained the point of the first and do not contain its own: enter and
\* leave alternate for every viewport, and a viewport the pointer stays
\* inside is not entered again.
C14_EnterLeaveAlternate ==
    [][ (/\ op[1] = "on_mouse_motion" /\ op'[1] = "on_mouse_motion"
         /\ op[2] = op'[2] /\ op[2] \in Roots) =>
            \A i \in 1 .. Len(log') :
                /\ log'[i][1] = "on_enter" =>
                       /\ Inside(vp', log'[i][2], op'[3][1], op'[3][2])
                       /\ ~Inside(vp, log'[i][2], op[3][1], op[3][2])
                /\ log'[i][1] = "on_leave" =>
                       /\ ~Inside(vp', log'[i][2], op'[3][1], op'[3][2])
                       /\ Inside(vp, log'[i][2], op[3][1], op[3][2])
      ]_vars

---------------------------------------------------------------------------
(* C15, C16: the active setter on trees of up to four viewports *)

MaxActiveNodes == 4

ActiveArgs == { Arg(P(I(1), I(1)), P(Zero, Zero), P(Zero, Zero), None) }

NextActive ==
    \/ Build(MaxActiveNodes, ActiveArgs)
    \/ \E n \in Nodes, value \in BOOLEAN : SetActive(n, value) /\ UNCHANGED calls

SpecActive == Init /\ [][NextActive]_vars

\* C15: setting a viewport's active flag to false sets the flag of the
\* viewport and of every descendant to false, and changes nothing else:
\* the viewports outside the subtree are as they were.
C15_DeactivateCascades ==
    [][ (op'[1] = "set_active" /\ op'[3] = <<FALSE>>) =>
            \A m \in Nodes :
                vp'[m] = IF InSubtree(vp, op'[2], m)
                         THEN [vp[m] EXCEPT !.active = FALSE]
                         ELSE vp[m]
      ]_vars

\* The flag was set to false on a viewport that has a grandchild, in a
\* tree where a viewport outside its subtree is active.
C15_Witness ==
    /\ op[1] = "set_active" /\ op[3] = <<FALSE>>
    /\ \E m \in Nodes : InSubtree(vp, op[2], m) /\ Depth(vp, m) = Depth(vp, op[2]) + 2
    /\ \E m \in Nodes : ~InSubtree(vp, op[2], m) /\ vp[m].active
    /\ \A m \in Nodes : InSubtree(vp, op[2], m) => ~vp[m].active

\* C16: setting a viewport's active flag to true marks that viewport
\* only: the flag of every other viewport, its descendants included, is
\* as it was.
C16_ActivateMarksOne ==
    [][ (op'[1] = "set_active" /\ op'[3] = <<TRUE>>) =>
            \A m \in Nodes :
                vp'[m] = IF m = op'[2]
                         THEN [vp[m] EXCEPT !.active = TRUE]
                         ELSE vp[m]
      ]_vars

---------------------------------------------------------------------------
(* C17 *)

\* C17: in a tree laid out by a resize of its root, the hit test of a
\* viewport at any depth is true exactly when x is in [vx, vx + vw) and
\* H - y is in [vy, vy + vh), for the viewport rectangle (vx, vy, vw, vh)
\* of the viewport and the height H of the root of its tree.
C17_HitTestAgainstRootHeight ==
    (op[1] = "on_resize" /\ op[2] \in Roots) =>
        \A n \in Tree(op[2]), q \in Points :
            contains(vp, n, q[1], q[2]) <=> Inside(vp, n, q[1], q[2])

---------------------------------------------------------------------------
(* C18 *)

\* C18: a viewport that is made gets an id above the id of every viewport
\* made before it, no two viewports have the same id, and no operation
\* changes the id of a viewport.
C18_IdsIncreaseAndStay ==
    [][ /\ \A n \in Nodes : vp'[n].id = vp[n].id
        /\ \A n \in Nodes' \ Nodes : \A m \in Nodes : vp'[n].id > vp[m].id
        /\ \A n, m \in Nodes' : vp'[n].id = vp'[m].id => n = m
      ]_vars

\* Three viewports were made and two calls followed, the last one of
\* set_size: the ids are three different numbers still.
C18_Witness ==
    /\ idcount = 3
    /\ op[1] = "set_size"
    /\ calls = 2
    /\ Cardinality({ vp[n].id : n \in Nodes }) = 3

---------------------------------------------------------------------------
(* C19 *)

\* The clip along one axis, <<position, size>>, as the specification gives
\* it: from the parent's clip origin pc0 and clip size pcs and the
\* viewport's own origin v0 and size vs.
ClipAxis(pc0, pcs, v0, vs) ==
    LET c0 == RMax(pc0, v0)
    IN  <<c0, RMax(RMin(RSub(RSub(pcs, RSub(c0, pc0)), I(1)), vs), Zero)>>

\* C19: a recomputed viewport that has a parent has the clip rectangle
\* clip.x = max(parent.clip.x, x),
\* clip.w = max(min(parent.clip.w - (clip.x - parent.clip.x) - 1, w), 0),
\* and the same for y and h: the reference is the parent's clip origin,
\* also when it is not the parent's viewport origin.
C19_ClipFromParentClip ==
    \A m \in Recomputed \ Roots :
        LET q  == scissor(vp, ParentOf(vp, m))
            r  == viewport(vp, m)
            cx == ClipAxis(q[1], q[3], r[1], r[3])
            cy == ClipAxis(q[2], q[4], r[2], r[4])
        IN  scissor(vp, m) = <<cx[1], cy[1], cx[2], cy[2]>>

---------------------------------------------------------------------------
(* C20 *)

\* The rule of the code for a requested position r against the parent
\* dimension p: no clamp at 0, and r = 1 is one pixel.
PositionRule(r, p) ==
    CASE RLe(r, I(-1))                 -> RAdd(p, r)
      [] RLt(I(-1), r) /\ RLt(r, Zero) -> RAdd(p, RMul(r, p))
      [] RLe(Zero, r) /\ RLt(r, I(1))  -> RMul(r, p)
      [] RLe(I(1), r)                  -> r

\* m's position minus the parent's origin plus the anchor offset, <<x, y>>:
\* what the position rule resolved, rounded.
Resolved(m) ==
    LET s == vp[m]
        q == vp[ParentOf(vp, m)]
    IN  <<RAdd(RSub(s.viewport_position[1], q.viewport_position[1]),
               AnchorX(s, s.viewport_size[1])),
          RAdd(RSub(s.viewport_position[2], q.viewport_position[2]),
               AnchorY(s, s.viewport_size[2]))>>

\* C20, as claimed: the position of a recomputed child is resolved by the
\* four-branch rule of the size (clamped at 0 for r < 0, r = 1 the full
\* parent dimension), rounded, plus the parent's origin, minus the anchor
\* offset, on each axis.
C20_PositionBySizeRule ==
    \A m \in Recomputed \ Roots :
        LET r == vp[m].requested_position
            p == vp[ParentOf(vp, m)].viewport_size
        IN  /\ Nearest(Resolved(m)[1], FourBranch(r[1], p[1]))
            /\ Nearest(Resolved(m)[2], FourBranch(r[2], p[2]))

\* C20, amended: the position of a recomputed child is resolved by
\* r <= -1: p + r; -1 < r < 0: p + r*p; 0 <= r < 1: r*p; r >= 1: r, with no
\* clamp at 0, rounded, plus the parent's origin, minus the anchor offset,
\* on each axis.
C20_PositionByPositionRule ==
    \A m \in Recomputed \ Roots :
        LET r == vp[m].requested_position
            p == vp[ParentOf(vp, m)].viewport_size
        IN  /\ Nearest(Resolved(m)[1], PositionRule(r[1], p[1]))
            /\ Nearest(Resolved(m)[2], PositionRule(r[2], p[2]))

\* A recomputed child whose requested x is an inset larger than the
\* parent's width and whose requested y is 1.
C20_Witness ==
    \E m \in Recomputed \ Roots :
        LET s == vp[m]
            q == vp[ParentOf(vp, m)]
        IN  /\ RLe(s.requested_position[1], I(-1))
            /\ RLt(RAdd(q.viewport_size[1], s.requested_position[1]), Zero)
            /\ s.requested_position[2] = I(1)
            /\ RLt(I(1), q.viewport_size[2])
            /\ s.viewport_position[2] =
                   RSub(RAdd(I(1), q.viewport_position[2]), AnchorY(s, s.viewport_size[2]))

---------------------------------------------------------------------------
(* C21 *)

\* C21: after a move dispatched at a root whose point is inside at least
\* one child of the root, the root's own active flag is false, whatever
\* the order of its children and whether or not another child contains
\* the point.  (The root is the viewport whose handler is the last to
\* complete; its children are hit-tested against its own height.)
C21_ParentInactiveWhenChildHit ==
    (op[1] = "on_mouse_motion" /\ op[2] \in Roots) =>
        LET cs == vp[op[2]].children
        IN  (\E i \in 1 .. Len(cs) : Inside(vp, cs[i], op[3][1], op[3][2]))
                => ~vp[op[2]].active

---------------------------------------------------------------------------
(* C22 *)

\* C22: of two moves dispatched one after the other at a root, the second
\* delivers 'leave' to every viewport that the first delivered 'enter' to
\* and whose rectangle does not contain the point of the second: a
\* viewport that was entered is left by the first move outside it, at any
\* depth, and is never deactivated without a 'leave'.
C22_EnteredThenLeft ==
    [][ (/\ op[1] = "on_mouse_motion" /\ op'[1] = "on_mouse_motion"
         /\ op[2] = op'[2] /\ op[2] \in Roots) =>
            \A i \in 1 .. Len(log) :
                (/\ log[i][1] = "on_enter"
                 /\ ~Inside(vp', log[i][2], op'[3][1], op'[3][2])) =>
                    \E j \in 1 .. Len(log') :
                        log'[j][1] = "on_leave" /\ log'[j][2] = log[i][2]
      ]_vars

---------------------------------------------------------------------------
(* C23 *)

\* C23: no operation but a press dispatched at a root changes the capture
\* list of that root: not a release, a drag, a scroll, a move or a resize,
\* wherever it is dispatched.  After a press dispatched at a root, every
\* node of the root's capture list contains the point of the press and
\* has received the press, and is in the list once: nothing captured by an
\* earlier press is left.  A drag or a scroll dispatched at a root after a
\* release is delivered to the last node of the list.
C23_OnlyRootPressChangesCapture ==
    [][ /\ \A r \in Roots :
               ~(op'[1] = "on_mouse_press" /\ op'[2] = r) =>
                   vp'[r].active_viewports = vp[r].active_viewports
        /\ (op'[1] = "on_mouse_press" /\ op'[2] \in Roots) =>
               LET cap == vp'[op'[2]].active_viewports
                   got == Members(Delivered(log', "on_mouse_press", op'[2], 1))
               IN  /\ NoDuplicate(cap)
                   /\ \A m \in Members(cap) :
                          /\ Inside(vp', m, op'[3][1], op'[3][2])
                          /\ m \in got
        /\ (/\ op[1] = "on_mouse_release" /\ op[2] \in Roots /\ op'[2] = op[2]
            /\ op'[1] \in {"on_mouse_drag", "on_mouse_scroll"}
            /\ vp[op[2]].active_viewports # <<>>) =>
               LET cap == vp[op[2]].active_viewports
               IN  /\ Len(log') = 2
                   /\ log'[2][1] = op'[1]
                   /\ log'[2][2] = cap[Len(cap)]
      ]_vars

\* A move was dispatched at a root whose capture list holds two nodes, one
\* of which does not contain the point of the move: the list outlived it.
C23_Witness ==
    /\ op[1] = "on_mouse_motion" /\ op[2] \in Roots
    /\ LET cap == vp[op[2]].active_viewports
       IN  /\ Len(cap) = 2
           /\ \E m \in Members(cap) : ~Inside(vp, m, op[3][1], op[3][2])

---------------------------------------------------------------------------
(* C24: _compute_viewport on trees that hold active and captured viewports *)

MaxRecomputeNodes == 3

MaxRecomputeCalls == 3

RecomputeArgs ==
    { Arg(P(I(8), I(8)), P(Zero, Zero), P(Zero, Zero), None),
      Arg(P(I(400), I(400)), P(Zero, Zero), P(Zero, Zero), F(1, 2)),
      Arg(P(F(1, 2), F(-1, 2)), P(F(1, 4), F(-1, 4)), P(F(1, 2), F(1, 2)), None) }

RecomputeSizes == { P(F(1, 4), I(6)), P(I(-1), I(1)) }

\* The application builds its tree; then it sets sizes and positions and
\* the active flag, and the window dispatches presses to the roots and
\* resizes to any viewport.
NextRecompute ==
    \/ Building /\ Build(MaxRecomputeNodes, RecomputeArgs)
    \/ \E n \in Nodes :
           Sane(n) /\ Call(MaxRecomputeCalls) /\ SetActive(n, TRUE)
    \/ \E n \in Roots :
           Sane(n) /\ Call(MaxRecomputeCalls) /\ Press(n, Point0[1], Point0[2])
    \/ \E n \in Nodes \ Roots, s \in RecomputeSizes :
           Sane(n) /\ Call(MaxRecomputeCalls) /\ SetSize(n, s)
    \/ \E n \in Nodes, s \in Positions :
           Sane(n) /\ Call(MaxRecomputeCalls) /\ SetPosition(n, s)
    \/ \E n \in Nodes, s \in WindowSizes :
           Sane(n) /\ Call(MaxRecomputeCalls) /\ Resize(n, s[1], s[2])

SpecRecompute == Init /\ [][NextRecompute]_vars

\* The four rectangle fields of a viewport.
Rectangles(s) ==
    <<s.viewport_position, s.viewport_size, s.scissor_position, s.scissor_size>>

\* C24: an operation that recomputes, from the viewport where it starts
\* _compute_viewport (its target for a resize, self.root for a setter),
\* changes the viewport and clip rectangles of that viewport and of its
\* descendants only: the rectangles of every other viewport (its parent,
\* its ancestors, the rest) are as they were, and so are every viewport's
\* anchor, aspect, active flag, capture list, parent, children and id, and
\* its requested size and position but for the one the operation itself
\* assigns before it recomputes.  And recomputing once more from the same
\* viewport, with no mutation in between, changes nothing.
C24_RecomputeFrame ==
    [][ op'[1] \in {"on_resize", "set_size", "set_position"} =>
            LET n     == op'[2]
                start == IF op'[1] = "on_resize" THEN n ELSE root(vp', n)
            IN  /\ \A m \in Nodes :
                       /\ InSubtree(vp', start, m) \/ Rectangles(vp'[m]) = Rectangles(vp[m])
                       /\ vp'[m].anchor = vp[m].anchor
                       /\ vp'[m].aspect = vp[m].aspect
                       /\ vp'[m].active = vp[m].active
                       /\ vp'[m].active_viewports = vp[m].active_viewports
                       /\ vp'[m].parent = vp[m].parent
                       /\ vp'[m].children = vp[m].children
                       /\ vp'[m].id = vp[m].id
                       /\ \/ vp'[m].requested_size = vp[m].requested_size
                          \/ m = n /\ op'[1] = "set_size"
                          \/ m = n /\ op'[1] = "on_resize" /\ ~HasParent(vp, n)
                       /\ \/ vp'[m].requested_position = vp[m].requested_position
                          \/ m = n /\ op'[1] = "set_position"
                /\ compute_viewport(vp', start) = vp'
      ]_vars

\* A resize was dispatched at a viewport that has a parent and a child, in
\* a tree that holds an active viewport and a captured one, and the
\* recomputed child is not the rectangle of its request any more.
C24_Witness ==
    /\ op[1] = "on_resize" /\ HasParent(vp, op[2])
    /\ vp[op[2]].children # <<>>
    /\ \E m \in Nodes : vp[m].active
    /\ \E r \in Roots : vp[r].active_viewports # <<>>
    /\ \E m \in Nodes :
           /\ InSubtree(vp, op[2], m) /\ m # op[2]
           /\ vp[m].viewport_size # vp[m].requested_size

---------------------------------------------------------------------------
(* C25 *)

\* The aspect on trees whose root has an aspect too: a root is not rounded,
\* so its height W * a need not be an integer.

MaxAspectNodes == 3

MaxAspectCalls == 2

AspectArgs ==
    { Arg(P(I(5), I(8)), P(Zero, Zero), P(Zero, Zero), F(1, 2)),
      Arg(P(I(1), I(1)), P(Zero, Zero), P(Zero, Zero), I(1)),
      Arg(P(F(1, 2), I(1)), P(Zero, Zero), P(Zero, Zero), F(1, 4)) }

AspectWindows == { P(5, 8), P(6, 2) }

NextAspect ==
    \/ Build(MaxAspectNodes, AspectArgs)
    \/ \E n \in Nodes \ Roots, s \in Sizes :
           Sane(n) /\ Call(MaxAspectCalls) /\ SetSize(n, s)
    \/ \E n \in Roots, s \in AspectWindows :
           Sane(n) /\ Call(MaxAspectCalls) /\ Resize(n, s[1], s[2])

SpecAspect == Init /\ [][NextAspect]_vars

\* m and every ancestor of m have the rectangles that the solver gives
\* them: the geometry of the path above and at m is valid.
RECURSIVE Valid(_)
Valid(m) == Solved(m) /\ (HasParent(vp, m) => Valid(ParentOf(vp, m)))

\* C25: a recomputed child of a parent of valid geometry, with an aspect
\* a, a requested width r and the resolved width w (the four-branch rule
\* against the parent's width, rounded), has the width w and the height
\* round(a * w); but when -1 < r <= 1 and a * w exceeds the parent's
\* viewport height, it has the parent's height and the width height / a.
\* The requested height has no part in either.
C25_AspectHeight ==
    \A m \in Recomputed \ Roots :
        (Truthy(vp[m].aspect) /\ Valid(ParentOf(vp, m))) =>
            LET a == vp[m].aspect
                r == vp[m].requested_size[1]
                q == vp[ParentOf(vp, m)].viewport_size
                w == IntRound(FourBranch(r, q[1]))
                s == vp[m].viewport_size
            IN  IF RLt(I(-1), r) /\ RLe(r, I(1)) /\ RLt(q[2], RMul(a, w))
                THEN s[2] = q[2] /\ s[1] = RDiv(q[2], a)
                ELSE s[1] = w /\ Nearest(s[2], RMul(a, w))

==========================================================================
